---- MODULE Spec2Model ----
(***************************************************************************)
(* Audit-log anomaly pipeline of the Academic Equipment Order System:      *)
(*   - the anomaly processor (backend/services/anomalyProcessor): the      *)
(*     in-memory queue, the isProcessing flag, the interval timer and the  *)
(*     drain cycle processQueue with its retry path;                       *)
(*   - the audit logger (backend/utils/auditLogger): logAuditAction with   *)
(*     its validation, the insert into the logs table and the hand-off to  *)
(*     queueLogForAnalysis.                                                *)
(* JavaScript runs each function to its next await without interruption,   *)
(* so every action below is the code between two awaits.                   *)
(***************************************************************************)
EXTENDS Integers, Sequences, FiniteSets, TLC

\* ------------------------------------------------------------------ bounds
MaxLogs == 2          \* entries ever handed to queueLogForAnalysis by its callers
MaxRows == 1          \* rows ever inserted into table logs
MaxCycles == 5        \* drain cycles that take a batch from the queue
NumCtx == 2           \* processQueue activations that may be suspended at an await
InitQueued == 25      \* queue length at the start of the batch-size scenario
UpsertQueued == 3     \* queue length at the start of the repeated-log scenario
StopQueued == 3       \* queue length at the start of the stop-during-drain scenario
MaxTicks == 6         \* timer ticks of the retry-delay scenario

\* ------------------------------------------------------- program constants
BATCH_SIZE == 10
MAX_RETRIES == 3
PROCESS_INTERVAL_MS == 10000
RETRY_DELAY_MS == 30000
SYSTEM_USER_ID == 0
\* ANOMALY_THRESHOLD of the classifier service (0.7), in hundredths
ANOMALY_THRESHOLD == 70

\* ------------------------------------------------------------- JS values
\* metadata objects the formatter distinguishes: null, {status:'success'},
\* {status:'failed', reason:'wrong_password'} and {reason: 42}
MetaNull == [isNull |-> TRUE, type |-> "object", status |-> "undefined", reasonType |-> "undefined"]
MetaSuccess == [isNull |-> FALSE, type |-> "object", status |-> "success", reasonType |-> "undefined"]
MetaFailed == [isNull |-> FALSE, type |-> "object", status |-> "failed", reasonType |-> "string"]
MetaReasonNumber == [isNull |-> FALSE, type |-> "object", status |-> "undefined", reasonType |-> "number"]
\* an object with neither status nor reason, e.g. {product_id: 3, name: 'x'}
MetaPlain == [isNull |-> FALSE, type |-> "object", status |-> "undefined", reasonType |-> "undefined"]
\* a metadata argument that is a string, not an object
MetaString == [isNull |-> FALSE, type |-> "string", status |-> "undefined", reasonType |-> "undefined"]

\* strings are sequences of characters; String.prototype.trim()
RECURSIVE TrimLeft(_)
TrimLeft(s) == IF s # <<>> /\ Head(s) = " " THEN TrimLeft(Tail(s)) ELSE s
RECURSIVE TrimRight(_)
TrimRight(s) == IF s # <<>> /\ s[Len(s)] = " " THEN TrimRight(SubSeq(s, 1, Len(s) - 1)) ELSE s
Trim(s) == TrimRight(TrimLeft(s))

VARIABLES
  queue,              \* const queue = []            (anomalyProcessor)
  isProcessing,       \* let isProcessing = false
  processorInterval,  \* let processorInterval = null  (TRUE: a timer handle)
  timers,             \* interval timers of the runtime that setInterval made and no clearInterval cancelled
  ctx,                \* suspended processQueue activations: pc, batch, loop index, result
  scores,             \* rows of table log_anomaly_scores
  lastHealth,         \* serviceUp, when the latest step resumed processQueue after the health check
  lastCall,           \* how processQueue returned or went on, when the latest step called it
  cycles,             \* drain cycles that have taken a batch so far
  nextUid,            \* identity of the next queue item object
  attempts,           \* per item object: calls of analyzeLog made for it
  storedItems,        \* item objects whose score the upsert has stored
  gaveUp,             \* per item object: 'Giving up on log' messages
  logs,               \* rows of table logs
  anomalyQueueFn,     \* let queueLogForAnalysis = null   (auditLogger)
  writer,             \* the logAuditAction call in flight and the last outcome
  now,                \* Date.now(), in ms since the process started
  client              \* the latest call of a client operation on its own: reply and outcome

procVars == <<queue, isProcessing, processorInterval, timers, ctx, scores, lastHealth,
              lastCall, cycles, nextUid, attempts, storedItems, gaveUp>>
writerVars == <<logs, anomalyQueueFn, writer>>
vars == <<queue, isProcessing, processorInterval, timers, ctx, scores, lastHealth,
          lastCall, cycles, nextUid, attempts, storedItems, gaveUp,
          logs, anomalyQueueFn, writer, now, client>>

Ctx == 1..NumCtx
IdleCtx == [pc |-> "idle", batch |-> <<>>, i |-> 0, result |-> 0, score |-> 0]

\* ------------------------------------------------------------ sequences
Take(s, n) == SubSeq(s, 1, IF Len(s) < n THEN Len(s) ELSE n)
Drop(s, n) == SubSeq(s, (IF Len(s) < n THEN Len(s) ELSE n) + 1, Len(s))

\* ======================================================================
\* anomalyClient: classifier client and text formatter
\* ======================================================================

\* possible fates of the GET /health request
HealthResponses == {"healthy_loaded", "healthy_not_loaded", "not_ok", "timeout"}
\* possible fates of the POST /analyze-log request
AnalyzeResponses == {"ok", "not_ok", "timeout", "network_error"}
\* possible fates of the upsert into log_anomaly_scores
UpsertOutcomes == {"ok", "error", "throw"}
\* anomaly_score values of a classifier verdict, in hundredths
ScoreValues == {10, 95}

\* isServiceAvailable(): true only for an ok response with status 'healthy'
\* and model_loaded === true; every failure is caught and returns false
isServiceAvailable(resp) == resp = "healthy_loaded"

\* analyzeLog(): a result object only for an ok response; a non-ok status,
\* a timeout (AbortError) and any other exception all return null
analyzeLogReturnsResult(resp) == resp = "ok"

\* ----------------------------------------------------------------------
\* The three client operations over what the service sends back
\* ----------------------------------------------------------------------

\* what fetch and response.json() meet: the request is answered, aborted by
\* the AbortController (timeout) or fails to connect; the status is 2xx or
\* not; the body is not JSON, or is JSON null, an object or an array; and,
\* for an object, whether status is 'healthy' and model_loaded is true
Replies ==
  [net : {"response", "timeout", "refused"}, ok : BOOLEAN,
   json : {"malformed", "null", "object", "array"},
   healthy : BOOLEAN, model_loaded : BOOLEAN]

\* a function body without its try/catch: the exception leaves the function
catchRethrows(v, fallback) == v
\* 'try { ... } catch (error) { return fallback }' around a body that
\* returned v or threw
catchReturns(v, fallback) == IF v = "throw" THEN fallback ELSE v

\* the try block of isServiceAvailable(): fetch rejects on abort and on a
\* connection failure, response.json() rejects on a body that is not JSON,
\* and data.status throws a TypeError when the body is JSON null
isServiceAvailableTry(r) ==
  IF r.net # "response" THEN "throw"
  ELSE IF ~r.ok THEN "false"
  ELSE IF r.json \in {"malformed", "null"} THEN "throw"
  ELSE IF r.json = "object" /\ r.healthy /\ r.model_loaded THEN "true"
  ELSE "false"
isServiceAvailableOn(r) == catchReturns(isServiceAvailableTry(r), "false")

\* the try block of analyzeLog(): for a non-ok status the body is parsed
\* with '.catch(() => ({}))' and null is returned; for an ok status
\* response.json() rejects on a body that is not JSON and
\* result.anomaly_score throws a TypeError when the body is JSON null
analyzeLogTry(r) ==
  IF r.net # "response" THEN "throw"
  ELSE IF ~r.ok THEN "null"
  ELSE IF r.json \in {"malformed", "null"} THEN "throw"
  ELSE "result"
analyzeLogOn(r) == catchReturns(analyzeLogTry(r), "null")

\* the try block of analyzeBatch(logs): logs.length and logs.map throw when
\* logs is not an array; results.length throws when the body is JSON null;
\* an ok response returns whatever the body parsed to
analyzeBatchTry(logsIsArray, r) ==
  IF ~logsIsArray THEN "throw"
  ELSE IF r.net # "response" THEN "throw"
  ELSE IF ~r.ok THEN "empty"
  ELSE IF r.json \in {"malformed", "null"} THEN "throw"
  ELSE IF r.json = "array" THEN "results"
  ELSE "object"
analyzeBatchOn(logsIsArray, r) == catchReturns(analyzeBatchTry(logsIsArray, r), "empty")

ClientIdle ==
  [op |-> "none", logsIsArray |-> TRUE, out |-> "none",
   reply |-> [net |-> "response", ok |-> TRUE, json |-> "object",
              healthy |-> TRUE, model_loaded |-> TRUE]]

\* a call of isServiceAvailable() answered with r
IsServiceAvailableCall(r) ==
  /\ client' = [op |-> "isServiceAvailable", logsIsArray |-> TRUE, reply |-> r,
                out |-> isServiceAvailableOn(r)]
  /\ UNCHANGED <<procVars, writerVars, now>>
\* a call of analyzeLog(logId, logText, timestamp) answered with r
AnalyzeLogCall(r) ==
  /\ client' = [op |-> "analyzeLog", logsIsArray |-> TRUE, reply |-> r,
                out |-> analyzeLogOn(r)]
  /\ UNCHANGED <<procVars, writerVars, now>>
\* a call of analyzeBatch(logs) answered with r
AnalyzeBatchCall(logsIsArray, r) ==
  /\ client' = [op |-> "analyzeBatch", logsIsArray |-> logsIsArray, reply |-> r,
                out |-> analyzeBatchOn(logsIsArray, r)]
  /\ UNCHANGED <<procVars, writerVars, now>>

NextClient ==
  \/ \E r \in Replies : IsServiceAvailableCall(r)
  \/ \E r \in Replies : AnalyzeLogCall(r)
  \/ \E a \in BOOLEAN, r \in Replies : AnalyzeBatchCall(a, r)

\* formatLogForAnalysis() throws a TypeError at meta.reason.replace(...) when
\* a LOGIN entry carries a truthy reason that is not a string
formatLogThrows(logEntry) ==
  LET meta == IF logEntry.metadata.isNull
              THEN [isNull |-> FALSE, type |-> "object", status |-> "undefined", reasonType |-> "undefined"]
              ELSE logEntry.metadata
      reasonTruthy == meta.reasonType # "undefined"
  IN  /\ logEntry.action = "LOGIN"
      /\ (meta.status = "failed" \/ reasonTruthy)
      /\ reasonTruthy
      /\ meta.reasonType # "string"

\* strings of more than a few characters are sequences of words and blanks
RECURSIVE JoinParts(_)
JoinParts(parts) ==
  IF parts = <<>> THEN <<>>
  ELSE IF Len(parts) = 1 THEN parts[1]
  ELSE parts[1] \o <<" ">> \o JoinParts(Tail(parts))
Contains(text, word) == \E k \in 1..Len(text) : text[k] = word

\* isAdmin of formatLogForAnalysis: the description, lower-cased, includes
\* 'admin' (the metadata modelled carries no role, no action includes 'ADMIN')
isAdmin(logEntry) ==
  \E k \in 1..Len(logEntry.description) : logEntry.description[k] \in {"admin", "Admin", "ADMIN"}

\* the successful-login case with the description pushed as for the other actions
loginSuccessPartsWithDescription(logEntry) == <<logEntry.description>>
\* the part pushed for a LOGIN that is neither failed nor carries a reason
loginSuccessParts(logEntry) == <<<<"user logged in successfully">>>>

\* formatLogForAnalysis(logEntry) where it does not throw: the parts pushed,
\* joined with ' '
formatLogForAnalysis(logEntry) ==
  LET meta == IF logEntry.metadata.isNull
              THEN [isNull |-> FALSE, type |-> "object", status |-> "undefined", reasonType |-> "undefined"]
              ELSE logEntry.metadata
      adminPart == IF isAdmin(logEntry) THEN <<<<"Admin">>>> ELSE <<>>
      descriptionPart == IF logEntry.description # <<>> THEN <<logEntry.description>> ELSE <<>>
      actionParts ==
        IF logEntry.action = "LOGIN"
        THEN IF meta.status = "failed" \/ meta.reasonType # "undefined"
             THEN <<<<"failed login attempt for user: unknown">>>>
                  \o (IF meta.reasonType # "undefined" THEN <<<<"(reason)">>>> ELSE <<>>)
             ELSE loginSuccessParts(logEntry)
        ELSE IF logEntry.action = "LOGOUT" THEN <<<<"user logged out">>>>
        ELSE descriptionPart
  IN  JoinParts(adminPart \o actionParts)

\* ======================================================================
\* anomalyProcessor: queue and background processor
\* ======================================================================

Description == <<"d">>

NullEntry == [isNull |-> TRUE, id |-> 0, action |-> "LOGIN",
              description |-> Description, metadata |-> MetaNull]
MakeEntry(id, action, description, metadata) ==
  [isNull |-> FALSE, id |-> id, action |-> action,
   description |-> description, metadata |-> metadata]

\* the entry put at the front of the queue (unshift in place of push)
queueLogForAnalysisFront(q, logEntry, uid) ==
  IF logEntry.isNull \/ logEntry.id = 0
  THEN q
  ELSE <<[uid |-> uid, id |-> logEntry.id, action |-> logEntry.action,
          description |-> logEntry.description,
          metadata |-> logEntry.metadata, retries |-> 0, nextRetryAt |-> 0]>> \o q
\* queueLogForAnalysis(logEntry): the queue after the call
queueLogForAnalysis(q, logEntry, uid) ==
  IF logEntry.isNull \/ logEntry.id = 0
  THEN q
  ELSE Append(q, [uid |-> uid, id |-> logEntry.id, action |-> logEntry.action,
                  description |-> logEntry.description,
                  metadata |-> logEntry.metadata, retries |-> 0, nextRetryAt |-> 0])
queueLogAccepts(logEntry) == ~(logEntry.isNull \/ logEntry.id = 0)

\* the retry test with <= in place of <
shouldRetryInclusive(logEntry) == logEntry.retries <= MAX_RETRIES
\* handleFailedAnalysis(logEntry): the retry test, the queue and the log after it
shouldRetry(logEntry) == logEntry.retries < MAX_RETRIES
\* the re-queue without 'logEntry.retries++'
handleFailedNoIncrement(q, logEntry) ==
  IF shouldRetry(logEntry)
  THEN Append(q, [logEntry EXCEPT !.nextRetryAt = now + RETRY_DELAY_MS])
  ELSE q
\* the failed entry put at the front of the queue (unshift in place of push)
handleFailedUnshift(q, logEntry) ==
  IF shouldRetry(logEntry)
  THEN <<[logEntry EXCEPT !.retries = @ + 1,
                          !.nextRetryAt = now + RETRY_DELAY_MS]>> \o q
  ELSE q
handleFailedAnalysis(q, logEntry) ==
  IF shouldRetry(logEntry)
  THEN Append(q, [logEntry EXCEPT !.retries = @ + 1,
                                  !.nextRetryAt = now + RETRY_DELAY_MS])
  ELSE q
\* the give-up branch without its 'Giving up on log' message
handleFailedGiveUpSilent(g, logEntry) == g
\* handleFailedAnalysis(logEntry): the 'Giving up on log' messages after it
handleFailedGiveUp(g, logEntry) ==
  IF shouldRetry(logEntry) THEN g ELSE [g EXCEPT ![logEntry.uid] = @ + 1]

\* the for loop of processQueue from batch index j up to its next await:
\* entries whose formatting throws go through the catch block to
\* handleFailedAnalysis without suspending the function
RECURSIVE RunToAwait(_, _, _, _)
RunToAwait(q, g, batch, j) ==
  IF j > Len(batch) THEN [q |-> q, g |-> g, j |-> j]
  ELSE IF formatLogThrows(batch[j])
       THEN RunToAwait(handleFailedAnalysis(q, batch[j]),
                       handleFailedGiveUp(g, batch[j]), batch, j + 1)
       ELSE [q |-> q, g |-> g, j |-> j]

\* the guard left out: a call always goes on to the queue test
alreadyProcessingDropped == FALSE
\* the guard 'if (isProcessing) return'
alreadyProcessing == isProcessing

\* splice taking the whole queue instead of the first BATCH_SIZE entries
spliceAll(q) == [batch |-> q, rest |-> <<>>]
\* a splice that leaves the items whose nextRetryAt is not reached in the queue
spliceBatchDue(q) ==
  LET front == Take(q, BATCH_SIZE) IN
  [batch |-> SelectSeq(front, LAMBDA e : e.nextRetryAt <= now),
   rest |-> SelectSeq(front, LAMBDA e : e.nextRetryAt > now) \o Drop(q, BATCH_SIZE)]
\* queue.splice(0, BATCH_SIZE): the batch removed and what stays queued
spliceBatch(q) == [batch |-> Take(q, BATCH_SIZE), rest |-> Drop(q, BATCH_SIZE)]

\* the early return taken whatever the health check said
skipCycleAlways(serviceUp) == TRUE
\* the early return left out: the cycle goes on whatever the health check said
skipCycleNever(serviceUp) == FALSE
\* 'if (!serviceUp) return': whether the cycle is skipped
skipCycle(serviceUp) == ~serviceUp

FreeCtx == CHOOSE c \in Ctx : ctx[c].pc = "idle" /\ \A d \in Ctx : ctx[d].pc = "idle" => c <= d

\* processQueue() from its call to the first await (or an early return)
ProcessQueue ==
  /\ cycles < MaxCycles
  /\ \E c \in Ctx : ctx[c].pc = "idle"
  /\ IF alreadyProcessing
     THEN /\ lastCall' = "busy"
          /\ UNCHANGED <<isProcessing, ctx, cycles>>
     ELSE IF Len(queue) = 0
     THEN /\ lastCall' = "empty"
          /\ UNCHANGED <<isProcessing, ctx, cycles>>
     ELSE /\ lastCall' = "started"
          /\ isProcessing' = TRUE
          /\ ctx' = [ctx EXCEPT ![FreeCtx] = [IdleCtx EXCEPT !.pc = "health"]]
          /\ UNCHANGED cycles
  /\ lastHealth' = "none"
  /\ UNCHANGED <<queue, scores, nextUid, attempts, storedItems, gaveUp>>

\* the rest of the for loop from index j, without the finally block
ContinueNoFinally(c, q, g, batch, j) ==
  LET r == RunToAwait(q, g, batch, j) IN
  /\ queue' = r.q
  /\ gaveUp' = r.g
  /\ IF r.j > Len(batch)
     THEN /\ ctx' = [ctx EXCEPT ![c] = IdleCtx]
          /\ attempts' = attempts
          /\ UNCHANGED isProcessing
     ELSE /\ ctx' = [ctx EXCEPT ![c] = [IdleCtx EXCEPT !.pc = "analyze",
                                                   !.batch = batch, !.i = r.j]]
          /\ attempts' = [attempts EXCEPT ![batch[r.j].uid] = @ + 1]
          /\ UNCHANGED isProcessing
\* the rest of the for loop from index j, then the finally block
Continue(c, q, g, batch, j) ==
  LET r == RunToAwait(q, g, batch, j) IN
  /\ queue' = r.q
  /\ gaveUp' = r.g
  /\ IF r.j > Len(batch)
     THEN /\ ctx' = [ctx EXCEPT ![c] = IdleCtx]
          /\ isProcessing' = FALSE
          /\ attempts' = attempts
     ELSE /\ ctx' = [ctx EXCEPT ![c] = [IdleCtx EXCEPT !.pc = "analyze",
                                                   !.batch = batch, !.i = r.j]]
          /\ attempts' = [attempts EXCEPT ![batch[r.j].uid] = @ + 1]
          /\ UNCHANGED isProcessing

\* processQueue() resumed after 'await isServiceAvailable()'
HealthReturn(c, resp) ==
  /\ ctx[c].pc = "health"
  /\ LET serviceUp == isServiceAvailable(resp) IN
     /\ lastHealth' = IF serviceUp THEN "up" ELSE "down"
     /\ IF skipCycle(serviceUp)
        THEN /\ ctx' = [ctx EXCEPT ![c] = IdleCtx]
             /\ isProcessing' = FALSE
             /\ UNCHANGED <<queue, gaveUp, attempts, cycles>>
        ELSE /\ Continue(c, spliceBatch(queue).rest, gaveUp, spliceBatch(queue).batch, 1)
             /\ cycles' = cycles + 1
  /\ lastCall' = "none"
  /\ UNCHANGED <<processorInterval, timers, scores, nextUid, storedItems>>
  /\ UNCHANGED <<writerVars, now, client>>

\* processQueue() resumed after 'await analyzeLog(...)': what it does to the
\* processor's own state
AnalyzeResumeEcho(c, resp, score, echo) ==
  /\ ctx[c].pc = "analyze"
  /\ LET logEntry == ctx[c].batch[ctx[c].i] IN
     IF analyzeLogReturnsResult(resp)
     THEN \* the result is the response body: it carries the log_id the
          \* service echoes
          /\ ctx' = [ctx EXCEPT ![c].pc = "store", ![c].result = echo,
                                ![c].score = score]
          /\ UNCHANGED <<queue, gaveUp, attempts, isProcessing>>
     ELSE Continue(c, handleFailedAnalysis(queue, logEntry),
                   handleFailedGiveUp(gaveUp, logEntry), ctx[c].batch, ctx[c].i + 1)
  /\ lastHealth' = "none" /\ lastCall' = "none"
  /\ UNCHANGED <<processorInterval, timers, scores, cycles, nextUid, storedItems>>

\* the same with a service that echoes the log_id it was sent, as its
\* /analyze-log contract says
AnalyzeResume(c, resp, score) ==
  AnalyzeResumeEcho(c, resp, score, ctx[c].batch[ctx[c].i].id)

\* giving up on a log also deleting its row of table logs
AnalyzeReturnDeletesDropped(c, resp, score) ==
  /\ AnalyzeResume(c, resp, score)
  /\ logs' = IF ~analyzeLogReturnsResult(resp) /\ ~shouldRetry(ctx[c].batch[ctx[c].i])
             THEN SelectSeq(logs, LAMBDA r : r.id # ctx[c].batch[ctx[c].i].id)
             ELSE logs
  /\ UNCHANGED <<anomalyQueueFn, writer, now, client>>
\* processQueue() resumed after 'await analyzeLog(...)'; nothing in it
\* touches table logs or the audit logger
AnalyzeReturn(c, resp, score) ==
  /\ AnalyzeResume(c, resp, score)
  /\ UNCHANGED <<writerVars, now, client>>

\* the row storeAnomalyScore builds from the classifier's result: the service
\* flags a score at or above its threshold and names its model
scoreRow(logId, score) ==
  [log_id |-> logId, anomaly_score |-> score,
   is_anomaly |-> score >= ANOMALY_THRESHOLD, model_name |-> "model"]
\* a plain insert in place of the upsert
insertScore(rows, logId, score) == rows \cup {scoreRow(logId, score)}
\* storeAnomalyScore(result): the table after the upsert keyed on log_id
upsertScore(rows, logId, score) ==
  {r \in rows : r.log_id # logId} \cup {scoreRow(logId, score)}
\* storeAnomalyScore(result): true only when the upsert reported no error
storeAnomalyScoreReturns(outcome) == outcome = "ok"

\* processQueue() resumed after 'await storeAnomalyScore(result)'; the
\* boolean it returns is not looked at
StoreReturn(c, outcome) ==
  /\ ctx[c].pc = "store"
  /\ LET logEntry == ctx[c].batch[ctx[c].i] IN
     /\ IF outcome = "ok"
        THEN /\ scores' = upsertScore(scores, ctx[c].result, ctx[c].score)
             /\ storedItems' = storedItems \cup {logEntry.uid}
        ELSE UNCHANGED <<scores, storedItems>>
     /\ Continue(c, queue, gaveUp, ctx[c].batch, ctx[c].i + 1)
  /\ lastHealth' = "none" /\ lastCall' = "none"
  /\ UNCHANGED <<processorInterval, timers, cycles, nextUid>>
  /\ UNCHANGED <<writerVars, now, client>>

\* a caller of the exported queueLogForAnalysis
EntryInputs == {NullEntry, MakeEntry(0, "LOGIN", Description, MetaSuccess)}
  \cup {MakeEntry(nextUid, "LOGIN", Description, m) : m \in {MetaSuccess, MetaReasonNumber}}
QueueLogForAnalysis(logEntry) ==
  /\ nextUid <= MaxLogs
  /\ queue' = queueLogForAnalysis(queue, logEntry, nextUid)
  /\ IF queueLogAccepts(logEntry)
     THEN /\ nextUid' = nextUid + 1
          /\ attempts' = Append(attempts, 0)
          /\ gaveUp' = Append(gaveUp, 0)
     ELSE UNCHANGED <<nextUid, attempts, gaveUp>>
  /\ lastHealth' = "none" /\ lastCall' = "none"
  /\ UNCHANGED <<isProcessing, processorInterval, timers, ctx, scores, cycles, storedItems>>
  /\ UNCHANGED <<writerVars, now, client>>

\* the setInterval callback: it runs while a timer is active
TimerTick ==
  /\ timers > 0
  /\ ProcessQueue
  /\ UNCHANGED <<processorInterval, timers>>
  /\ UNCHANGED <<writerVars, now, client>>

\* a direct call of the exported processQueue
ProcessQueueCall ==
  /\ ProcessQueue
  /\ UNCHANGED <<processorInterval, timers>>
  /\ UNCHANGED <<writerVars, now, client>>

\* a start without the 'already running' guard: every call makes a timer
\* and runs processQueue
StartProcessorUnguarded ==
  /\ processorInterval' = TRUE
  /\ timers' = timers + 1
  /\ ProcessQueue
  /\ UNCHANGED <<writerVars, now, client>>
\* startProcessor(): returns at once when a timer exists; otherwise creates
\* the timer and runs processQueue immediately
StartProcessor ==
  /\ IF processorInterval
     THEN /\ lastHealth' = "none" /\ lastCall' = "none"
          /\ UNCHANGED <<queue, isProcessing, processorInterval, timers, ctx, scores, cycles,
                         nextUid, attempts, storedItems, gaveUp>>
     ELSE /\ processorInterval' = TRUE
          /\ timers' = timers + 1
          /\ ProcessQueue
  /\ UNCHANGED <<writerVars, now, client>>

\* a stop that also empties the queue
StopProcessorDiscardsQueue ==
  /\ processorInterval' = FALSE
  /\ timers' = IF processorInterval THEN timers - 1 ELSE timers
  /\ queue' = <<>>
  /\ lastHealth' = "none" /\ lastCall' = "none"
  /\ UNCHANGED <<isProcessing, ctx, scores, cycles,
                 nextUid, attempts, storedItems, gaveUp>>
  /\ UNCHANGED <<writerVars, now, client>>
\* stopProcessor(): clears the timer when there is one
StopProcessor ==
  /\ processorInterval' = FALSE
  /\ timers' = IF processorInterval THEN timers - 1 ELSE timers
  /\ lastHealth' = "none" /\ lastCall' = "none"
  /\ UNCHANGED <<queue, isProcessing, ctx, scores, cycles,
                 nextUid, attempts, storedItems, gaveUp>>
  /\ UNCHANGED <<writerVars, now, client>>

\* ======================================================================
\* auditLogger: logAuditAction
\* ======================================================================
VALID_ACTIONS == {"LOGIN", "LOGOUT", "CREATE_ORDER", "APPROVE_ORDER", "REJECT_ORDER",
                  "CREATE_PRODUCT", "UPDATE_PRODUCT", "DELETE_PRODUCT",
                  "CREATE_USER", "UPDATE_USER", "DELETE_USER"}

\* argument values of a call
JsNull == [t |-> "null", kind |-> "none", v |-> 0]
JsUndefined == [t |-> "undefined", kind |-> "none", v |-> 0]
JsInt(n) == [t |-> "number", kind |-> "integer", v |-> n]
JsNaN == [t |-> "number", kind |-> "NaN", v |-> 0]
\* the number n + 1/2
JsHalf(n) == [t |-> "number", kind |-> "fraction", v |-> n]
JsNumericString(n) == [t |-> "string", kind |-> "none", v |-> n]
UserIdInputs == {JsNull, JsUndefined, JsInt(SYSTEM_USER_ID), JsInt(7), JsNaN, JsHalf(1),
                 JsNumericString(7)}
ActionInputs == {"LOGIN", "CREATE_ORDER", "INVALID_ACTION", ""}
StrValue(chars) == [t |-> "string", v |-> chars]
DescriptionInputs == {StrValue(<<>>), StrValue(<<" ">>), StrValue(<<"a">>),
                      StrValue(<<" ", "a", " ">>), [t |-> "null", v |-> <<>>]}
MetadataInputs == {MetaNull, MetaSuccess, MetaReasonNumber, MetaString}
\* calls that pass validation, calls with one faulty argument, and two with several
ValidInputs == [userId : {JsInt(SYSTEM_USER_ID), JsInt(7), JsHalf(1)},
                actionType : {"LOGIN", "CREATE_ORDER"},
                description : {StrValue(<<"a">>), StrValue(<<" ", "a", " ">>)},
                metadata : {MetaNull, MetaSuccess, MetaReasonNumber}]
BaseInput == [userId |-> JsInt(7), actionType |-> "LOGIN",
              description |-> StrValue(<<"a">>), metadata |-> MetaSuccess]
CallInputs ==
  ValidInputs
  \cup {[BaseInput EXCEPT !.userId = u] : u \in UserIdInputs}
  \cup {[BaseInput EXCEPT !.actionType = a] : a \in ActionInputs}
  \cup {[BaseInput EXCEPT !.description = d] : d \in DescriptionInputs}
  \cup {[BaseInput EXCEPT !.metadata = m] : m \in MetadataInputs}
  \cup {[BaseInput EXCEPT !.userId = JsNull, !.actionType = "INVALID_ACTION"],
        [userId |-> JsUndefined, actionType |-> "", description |-> StrValue(<<" ">>),
         metadata |-> MetaString]}
NoArgs == [userId |-> JsUndefined, actionType |-> "", description |-> StrValue(<<>>),
           metadata |-> MetaNull]
\* the write in flight and the last outcome: via names the entry point the
\* caller used, given is the user id that caller supplied, http the response
\* of the route handler that made the call ("none" outside a handler)
WriterIdle == [pc |-> "idle", args |-> NoArgs, ret |-> "none", logId |-> 0,
               via |-> "none", given |-> JsUndefined, http |-> "none"]

\* the four validation steps of logAuditAction, each throwing on failure
userIdMissing(userId) == userId.t = "null" \/ userId.t = "undefined"
userIdNotNumber(userId) == userId.t # "number" \/ userId.kind = "NaN"
actionTypeInvalid(actionType) == actionType = "" \/ actionType \notin VALID_ACTIONS
\* the description test without the trim
descriptionInvalidNoTrim(description) ==
  description.t # "string" \/ description.v = <<>>
descriptionInvalid(description) ==
  description.t # "string" \/ description.v = <<>> \/ Trim(description.v) = <<>>
metadataInvalid(metadata) == ~metadata.isNull /\ metadata.type # "object"
validationThrows(args) ==
  \/ userIdMissing(args.userId)
  \/ userIdNotNumber(args.userId)
  \/ actionTypeInvalid(args.actionType)
  \/ descriptionInvalid(args.description)
  \/ metadataInvalid(args.metadata)

\* the row attributed to the system user whatever userId was given
insertedRowSystemActor(id, args) ==
  [id |-> id, user_id |-> JsInt(SYSTEM_USER_ID), action |-> args.actionType,
   description |-> Trim(args.description.v), metadata |-> args.metadata]
\* the row handed to supabase.from('logs').insert(...), with the id the
\* table assigns
insertedRow(id, args) ==
  [id |-> id, user_id |-> args.userId, action |-> args.actionType,
   description |-> Trim(args.description.v), metadata |-> args.metadata]

\* the entry with the caller's userId in place of data.id
queuedEntryUserId(id, args) ==
  MakeEntry(args.userId.v, args.actionType, Trim(args.description.v), args.metadata)
\* the entry handed to the queue function: id of the new row, action,
\* trimmed description, metadata
queuedEntry(id, args) ==
  MakeEntry(id, args.actionType, Trim(args.description.v), args.metadata)

\* fates of require('../services/anomalyProcessor') in getAnomalyQueue: the
\* module loads, the require throws, or the module object has no
\* queueLogForAnalysis yet
LoadOutcomes == {"loaded", "require_throws", "no_export"}
\* getAnomalyQueue(): the module-level function after the call
getAnomalyQueue(fn, load) ==
  IF fn # "null" THEN fn
  ELSE IF load = "loaded" THEN "fn"
  ELSE IF load = "require_throws" THEN "noop"
  ELSE "null"
\* calling the value getAnomalyQueue returned throws when it is not a function
queueCallThrows(fn) == fn = "null"

\* fates of the insert: a row with its id, an error object, an exception
InsertOutcomes == {"ok", "error", "throw"}
\* the value returned with an exception of the hand-off reaching the outer catch
logAuditReturnUncaught(outcome, enqueueThrew) ==
  IF outcome = "ok" /\ ~enqueueThrew THEN "success" ELSE "failure"
\* the value logAuditAction returns once the insert has settled: an error
\* object and an exception give success: false; an exception of the hand-off
\* is caught by the inner try
logAuditReturn(outcome, enqueueThrew) ==
  IF outcome = "ok" THEN "success" ELSE "failure"

\* the table without NOT NULL on user_id
logsTableAcceptsNullable(userId, description) ==
  /\ \/ userId.t \in {"null", "undefined"}
     \/ (userId.t = "number" /\ userId.kind \in {"integer", "NaN"})
  /\ description.t = "string"
\* table logs: user_id INTEGER NOT NULL, action VARCHAR(50) NOT NULL,
\* description TEXT NOT NULL; NaN and undefined reach the table as NULL
logsTableAccepts(userId, description) ==
  /\ userId.t = "number" /\ userId.kind = "integer"
  /\ description.t = "string"

\* POST /api/products after the product row is created: the value of
\* 'await logAuditAction(...)' is dropped and 201 is sent; an exception of
\* the call leaves the handler before res.status(201)
postProductResponse(ret) == IF ret = "threw" THEN "rejected" ELSE "201"

\* logAuditAction(args) from the call to 'await supabase...insert', called
\* directly, by the legacy wrapper or by a route handler
CallLogAuditAction(args, via, given, http) ==
  /\ writer.pc = "idle"
  /\ IF validationThrows(args)
     THEN writer' = [pc |-> "idle", args |-> args, ret |-> "threw", logId |-> 0,
                     via |-> via, given |-> given,
                     http |-> IF http = "pending" THEN postProductResponse("threw") ELSE http]
     ELSE /\ Len(logs) < MaxRows
          /\ writer' = [pc |-> "insert", args |-> args, ret |-> "none", logId |-> 0,
                        via |-> via, given |-> given, http |-> http]
  /\ UNCHANGED <<logs, anomalyQueueFn, now, client>>
  /\ lastHealth' = "none" /\ lastCall' = "none"
  /\ UNCHANGED <<queue, isProcessing, processorInterval, timers, ctx, scores, cycles,
                 nextUid, attempts, storedItems, gaveUp>>

LogAuditAction(args) == CallLogAuditAction(args, "logAuditAction", args.userId, "none")

\* logAuditAction resumed after the insert has settled; a handler awaiting
\* the call then sends its response
InsertReturn(outcome, load) ==
  /\ writer.pc = "insert"
  /\ outcome = "ok" => logsTableAccepts(writer.args.userId, writer.args.description)
  /\ IF outcome = "ok"
     THEN LET id == Len(logs) + 1
              fn == getAnomalyQueue(anomalyQueueFn, load)
              entry == queuedEntry(id, writer.args)
              enqueued == fn = "fn" /\ queueLogAccepts(entry)
              ret == logAuditReturn(outcome, queueCallThrows(fn))
          IN  /\ logs' = Append(logs, insertedRow(id, writer.args))
              /\ anomalyQueueFn' = fn
              /\ queue' = IF fn = "fn" THEN queueLogForAnalysis(queue, entry, nextUid)
                          ELSE queue
              /\ nextUid' = IF enqueued THEN nextUid + 1 ELSE nextUid
              /\ attempts' = IF enqueued THEN Append(attempts, 0) ELSE attempts
              /\ gaveUp' = IF enqueued THEN Append(gaveUp, 0) ELSE gaveUp
              /\ writer' = [writer EXCEPT !.pc = "idle", !.ret = ret, !.logId = id,
                              !.http = IF @ = "pending" THEN postProductResponse(ret) ELSE @]
     ELSE /\ writer' = [writer EXCEPT !.pc = "idle",
                          !.ret = logAuditReturn(outcome, FALSE), !.logId = 0,
                          !.http = IF @ = "pending"
                                   THEN postProductResponse(logAuditReturn(outcome, FALSE))
                                   ELSE @]
          /\ UNCHANGED <<logs, anomalyQueueFn, queue, nextUid, attempts, gaveUp>>
  /\ lastHealth' = "none" /\ lastCall' = "none"
  /\ UNCHANGED <<isProcessing, processorInterval, timers, ctx, scores, cycles, storedItems, now, client>>

\* ======================================================================
\* The other write paths into table logs
\* ======================================================================
\* auditLogger's legacy logAction(userId, action, description, metadata):
\* null and undefined become SYSTEM_USER_ID, then logAuditAction is called
legacySafeUserId(userId) ==
  IF userId.t = "null" \/ userId.t = "undefined" THEN JsInt(SYSTEM_USER_ID) ELSE userId
LegacyInputs == {[BaseInput EXCEPT !.userId = u] : u \in {JsNull, JsUndefined, JsInt(7), JsNaN}}
LegacyLogAction(args) ==
  CallLogAuditAction([args EXCEPT !.userId = legacySafeUserId(args.userId)],
                     "legacyLogAction", args.userId, "none")

\* utils/logger.js logAction(userId, action, description, metadata): no
\* validation; the row is handed to the insert as it is
loggerRow(id, args) ==
  [id |-> id, user_id |-> args.userId, action |-> args.actionType,
   description |-> args.description.v, metadata |-> args.metadata]
LoggerInputs ==
  {[BaseInput EXCEPT !.userId = u] : u \in {JsNull, JsUndefined, JsInt(SYSTEM_USER_ID), JsInt(7)}}
  \cup {[BaseInput EXCEPT !.actionType = "INVALID_ACTION"],
        [BaseInput EXCEPT !.description = StrValue(<<" ", "a", " ">>)]}
LoggerLogAction(args) ==
  /\ writer.pc = "idle"
  /\ Len(logs) < MaxRows
  /\ writer' = [pc |-> "loggerInsert", args |-> args, ret |-> "none", logId |-> 0,
                via |-> "loggerLogAction", given |-> args.userId, http |-> "none"]
  /\ UNCHANGED <<logs, anomalyQueueFn>>
  /\ lastHealth' = "none" /\ lastCall' = "none"
  /\ UNCHANGED <<procVars, now, client>>
\* logger.js logAction resumed after the insert: an error and an exception
\* are printed and the function returns undefined either way
LoggerInsertReturn(outcome) ==
  /\ writer.pc = "loggerInsert"
  /\ outcome = "ok" => logsTableAccepts(writer.args.userId, writer.args.description)
  /\ logs' = IF outcome = "ok" THEN Append(logs, loggerRow(Len(logs) + 1, writer.args))
             ELSE logs
  /\ writer' = [writer EXCEPT !.pc = "idle", !.ret = "undefined",
                              !.logId = IF outcome = "ok" THEN Len(logs) + 1 ELSE 0]
  /\ UNCHANGED anomalyQueueFn
  /\ lastHealth' = "none" /\ lastCall' = "none"
  /\ UNCHANGED <<procVars, now, client>>

\* POST /api/products: the audit call for the product just created, with
\* the authenticated user's id
ProductAuditInputs ==
  {[userId |-> JsInt(u), actionType |-> "CREATE_PRODUCT",
    description |-> StrValue(<<"a">>), metadata |-> MetaPlain] : u \in {7, 8}}
PostProduct(args) == CallLogAuditAction(args, "postProduct", args.userId, "pending")

InitProc ==
  /\ queue = <<>>
  /\ isProcessing = FALSE
  /\ processorInterval = FALSE
  /\ timers = 0
  /\ ctx = [c \in Ctx |-> IdleCtx]
  /\ scores = {}
  /\ lastHealth = "none"
  /\ lastCall = "none"
  /\ now = 0
  /\ client = ClientIdle
  /\ cycles = 0
  /\ nextUid = 1
  /\ attempts = <<>>
  /\ storedItems = {}
  /\ gaveUp = <<>>
InitWriter ==
  /\ logs = <<>>
  /\ anomalyQueueFn = "null"
  /\ writer = WriterIdle

Init == InitProc /\ InitWriter

Next ==
  \/ \E e \in EntryInputs : QueueLogForAnalysis(e)
  \/ TimerTick
  \/ ProcessQueueCall
  \/ StartProcessor
  \/ StopProcessor
  \/ \E c \in Ctx, resp \in HealthResponses : HealthReturn(c, resp)
  \/ \E c \in Ctx, resp \in AnalyzeResponses, s \in ScoreValues : AnalyzeReturn(c, resp, s)
  \/ \E c \in Ctx, o \in UpsertOutcomes : StoreReturn(c, o)

Spec == Init /\ [][Next]_vars

TypeOK ==
  /\ isProcessing \in BOOLEAN
  /\ processorInterval \in BOOLEAN
  /\ cycles \in 0..MaxCycles
  /\ \A k \in 1..Len(queue) : queue[k].retries \in 0..MAX_RETRIES

\* ======================================================================
\* The batch-size scenario: InitQueued entries were queued before the first
\* drain cycle, and one drain cycle runs
\* ======================================================================
BatchScores == {10}

InitBatch ==
  /\ queue = [k \in 1..InitQueued |->
                [uid |-> k, id |-> k, action |-> "LOGIN", description |-> Description,
                 metadata |-> MetaSuccess, retries |-> 0, nextRetryAt |-> 0]]
  /\ isProcessing = FALSE
  /\ processorInterval = FALSE
  /\ timers = 0
  /\ ctx = [c \in Ctx |-> IdleCtx]
  /\ scores = {}
  /\ lastHealth = "none"
  /\ lastCall = "none"
  /\ now = 0
  /\ client = ClientIdle
  /\ cycles = MaxCycles - 1
  /\ nextUid = InitQueued + 1
  /\ attempts = [k \in 1..InitQueued |-> 0]
  /\ storedItems = {}
  /\ gaveUp = [k \in 1..InitQueued |-> 0]
  /\ InitWriter

NextBatch ==
  \/ ProcessQueueCall
  \/ \E c \in Ctx, resp \in HealthResponses : HealthReturn(c, resp)
  \/ \E c \in Ctx, resp \in AnalyzeResponses, s \in BatchScores : AnalyzeReturn(c, resp, s)
  \/ \E c \in Ctx, o \in UpsertOutcomes : StoreReturn(c, o)

SpecBatch == InitBatch /\ [][NextBatch]_vars

\* ======================================================================
\* The repeated-log scenario: callers of queueLogForAnalysis have queued
\* UpsertQueued entries, some of them the same log twice, and two drain
\* cycles run
\* ======================================================================
UpsertIds == 1..2

InitUpsert ==
  /\ \E ids \in [1..UpsertQueued -> UpsertIds] :
       queue = [k \in 1..UpsertQueued |->
                  [uid |-> k, id |-> ids[k], action |-> "LOGIN", description |-> Description,
                   metadata |-> MetaSuccess, retries |-> 0, nextRetryAt |-> 0]]
  /\ isProcessing = FALSE
  /\ processorInterval = FALSE
  /\ timers = 0
  /\ ctx = [c \in Ctx |-> IdleCtx]
  /\ scores = {}
  /\ lastHealth = "none"
  /\ lastCall = "none"
  /\ now = 0
  /\ client = ClientIdle
  /\ cycles = MaxCycles - 2
  /\ nextUid = UpsertQueued + 1
  /\ attempts = [k \in 1..UpsertQueued |-> 0]
  /\ storedItems = {}
  /\ gaveUp = [k \in 1..UpsertQueued |-> 0]
  /\ InitWriter

NextUpsert ==
  \/ ProcessQueueCall
  \/ \E c \in Ctx, resp \in HealthResponses : HealthReturn(c, resp)
  \/ \E c \in Ctx, resp \in AnalyzeResponses, s \in ScoreValues : AnalyzeReturn(c, resp, s)
  \/ \E c \in Ctx, o \in UpsertOutcomes : StoreReturn(c, o)

SpecUpsert == InitUpsert /\ [][NextUpsert]_vars

\* ======================================================================
\* The recovered-classifier scenario: the processor is running, and from the
\* initial state on every health check, every analyzeLog call and every
\* upsert succeeds. Before that, an item may have been given up, lost by a
\* failed upsert, or left queued with some retries used
\* ======================================================================
LivePriors ==
  {[kind |-> k, retries |-> 0, throws |-> FALSE] : k \in {"none", "givenUp", "storeFailed"}}
  \cup [kind : {"queued"}, retries : 0..MAX_RETRIES, throws : BOOLEAN]

LiveItem(prior) ==
  [uid |-> 1, id |-> 1, action |-> "LOGIN", description |-> Description,
   metadata |-> IF prior.throws THEN MetaReasonNumber ELSE MetaSuccess,
   retries |-> prior.retries,
   nextRetryAt |-> IF prior.retries > 0 THEN RETRY_DELAY_MS ELSE 0]

InitLive ==
  /\ \E prior \in LivePriors :
       /\ queue = IF prior.kind = "queued" THEN <<LiveItem(prior)>> ELSE <<>>
       /\ nextUid = IF prior.kind = "none" THEN 1 ELSE 2
       /\ attempts = IF prior.kind = "none" THEN <<>>
                     ELSE IF prior.kind = "givenUp" THEN <<MAX_RETRIES + 1>>
                     ELSE IF prior.kind = "storeFailed" THEN <<1>>
                     ELSE IF prior.throws THEN <<0>> ELSE <<prior.retries>>
       /\ gaveUp = IF prior.kind = "none" THEN <<>>
                   ELSE IF prior.kind = "givenUp" THEN <<1>> ELSE <<0>>
  /\ isProcessing = FALSE
  /\ processorInterval = TRUE
  /\ timers = 1
  /\ ctx = [c \in Ctx |-> IdleCtx]
  /\ scores = {}
  /\ lastHealth = "none"
  /\ lastCall = "none"
  /\ now = 0
  /\ client = ClientIdle
  /\ cycles = 0
  /\ storedItems = {}
  /\ InitWriter

LiveEntry == MakeEntry(nextUid, "LOGIN", Description, MetaSuccess)
HealthReturnsUp == \E c \in Ctx : HealthReturn(c, "healthy_loaded")
AnalyzeReturnsResult == \E c \in Ctx, s \in ScoreValues : AnalyzeReturn(c, "ok", s)
StoreReturnsOk == \E c \in Ctx : StoreReturn(c, "ok")

NextLive ==
  \/ QueueLogForAnalysis(LiveEntry)
  \/ TimerTick
  \/ HealthReturnsUp
  \/ AnalyzeReturnsResult
  \/ StoreReturnsOk

\* setInterval keeps calling processQueue, and every request is answered
\* within its timeout
SpecLive ==
  /\ InitLive
  /\ [][NextLive]_vars
  /\ WF_vars(TimerTick)
  /\ WF_vars(HealthReturnsUp)
  /\ WF_vars(AnalyzeReturnsResult)
  /\ WF_vars(StoreReturnsOk)

NextWriter ==
  \/ \E args \in CallInputs : LogAuditAction(args)
  \/ \E o \in InsertOutcomes, l \in LoadOutcomes : InsertReturn(o, l)

SpecWriter == Init /\ [][NextWriter]_vars

\* ======================================================================
\* GET /api/logs and the end-to-end flow: logAuditAction, the queue, the
\* processor and the listing
\* ======================================================================
NullValue == [isNull |-> TRUE, v |-> 0]
Value(x) == [isNull |-> FALSE, v |-> x]

\* the embedded log_anomaly_scores of a log, as the select returns it; the
\* handler takes the array's first element or the object
anomalyDataOf(scoreRows, logId) == {r \in scoreRows : r.log_id = logId}

\* a listing that shows only the logs that have a score (an inner join)
listedLogsInner(rows, scoreRows) ==
  {k \in 1..Len(rows) : anomalyDataOf(scoreRows, rows[k].id) # {}}
\* the logs the select returns: all of table logs
listedLogs(rows, scoreRows) == 1..Len(rows)

\* the object the handler maps a log to
listEntry(log, scoreRows) ==
  LET data == anomalyDataOf(scoreRows, log.id)
      anomalyData == CHOOSE r \in data : TRUE
  IN  [id |-> log.id, userId |-> log.user_id, action |-> log.action,
       description |-> log.description, metadata |-> log.metadata,
       anomalyScore |-> IF data = {} THEN NullValue ELSE Value(anomalyData.anomaly_score),
       isAnomaly |-> IF data = {} THEN FALSE ELSE anomalyData.is_anomaly,
       modelName |-> IF data = {} THEN NullValue ELSE Value(anomalyData.model_name)]

\* the response body of GET /api/logs
listWithResults(rows, scoreRows) ==
  {listEntry(rows[k], scoreRows) : k \in listedLogs(rows, scoreRows)}

AliceDescription == <<"user", " ", "alice", " ", "logged", " ", "in">>
AliceLogin == [userId |-> JsInt(7), actionType |-> "LOGIN",
               description |-> StrValue(AliceDescription), metadata |-> MetaSuccess]
OrderByAlice == [userId |-> JsInt(7), actionType |-> "CREATE_ORDER",
                 description |-> StrValue(<<"order", " ", "by", " ", "alice">>),
                 metadata |-> MetaPlain]
E2EInputs == {AliceLogin, OrderByAlice}
\* verdicts of the classifier: score 0 and score 0.95
E2EScores == {0, 95}

NextE2E ==
  \/ \E args \in E2EInputs : LogAuditAction(args)
  \/ \E o \in InsertOutcomes, l \in LoadOutcomes : InsertReturn(o, l)
  \/ TimerTick
  \/ StartProcessor
  \/ StopProcessor
  \/ \E c \in Ctx, resp \in HealthResponses : HealthReturn(c, resp)
  \/ \E c \in Ctx, resp \in AnalyzeResponses, s \in E2EScores : AnalyzeReturn(c, resp, s)
  \/ \E c \in Ctx, o \in UpsertOutcomes : StoreReturn(c, o)

SpecE2E == Init /\ [][NextE2E]_vars

\* ======================================================================
\* The unresponsive-classifier scenario: logs were written and queued, the
\* processor is running, no further entry arrives, and every analyzeLog
\* call ends in its timeout; the health check may be answered or not
\* ======================================================================
TimeoutMetas == {MetaSuccess, MetaReasonNumber}

InitTimeout ==
  /\ \E n \in 1..MaxLogs : \E metas \in [1..n -> TimeoutMetas] :
       /\ logs = [k \in 1..n |-> insertedRow(k, [AliceLogin EXCEPT !.metadata = metas[k]])]
       /\ queue = [k \in 1..n |->
                     [uid |-> k, id |-> k, action |-> "LOGIN",
                      description |-> AliceDescription, metadata |-> metas[k], retries |-> 0, nextRetryAt |-> 0]]
       /\ nextUid = n + 1
       /\ attempts = [k \in 1..n |-> 0]
       /\ gaveUp = [k \in 1..n |-> 0]
  /\ isProcessing = FALSE
  /\ processorInterval = TRUE
  /\ timers = 1
  /\ ctx = [c \in Ctx |-> IdleCtx]
  /\ scores = {}
  /\ lastHealth = "none"
  /\ lastCall = "none"
  /\ now = 0
  /\ client = ClientIdle
  /\ cycles = 0
  /\ storedItems = {}
  /\ anomalyQueueFn = "fn"
  /\ writer = WriterIdle

HealthReturns == \E c \in Ctx, resp \in HealthResponses : HealthReturn(c, resp)
AnalyzeTimesOut == \E c \in Ctx : AnalyzeReturn(c, "timeout", 0)

NextTimeout ==
  \/ TimerTick
  \/ HealthReturns
  \/ AnalyzeTimesOut

\* setInterval keeps calling processQueue; the health check is answered or
\* aborted after 2 s, analyzeLog is aborted after its timeout
SpecTimeout ==
  /\ InitTimeout
  /\ [][NextTimeout]_vars
  /\ WF_vars(TimerTick)
  /\ WF_vars(HealthReturns)
  /\ WF_vars(AnalyzeTimesOut)

\* every write path into table logs
NextPaths ==
  \/ \E args \in {[BaseInput EXCEPT !.userId = u] : u \in UserIdInputs} : LogAuditAction(args)
  \/ \E args \in LegacyInputs : LegacyLogAction(args)
  \/ \E args \in LoggerInputs : LoggerLogAction(args)
  \/ \E args \in ProductAuditInputs : PostProduct(args)
  \/ \E o \in InsertOutcomes, l \in LoadOutcomes : InsertReturn(o, l)
  \/ \E o \in InsertOutcomes : LoggerInsertReturn(o)

SpecPaths == Init /\ [][NextPaths]_vars

\* ======================================================================
\* Properties
\* ======================================================================
Uids == 1..(nextUid - 1)
ActiveCtx == {c \in Ctx : ctx[c].pc # "idle"}
\* the item object is in a batch and its handling has not ended yet
InFlight(u) ==
  \E c \in Ctx : /\ ctx[c].pc \in {"analyze", "store"}
                 /\ \E k \in ctx[c].i..Len(ctx[c].batch) : ctx[c].batch[k].uid = u
QueuePositions(u) == {k \in 1..Len(queue) : queue[k].uid = u}
InQueue(u) == QueuePositions(u) # {}

\* C1: at most one drain cycle is in progress at any time; a call of
\* processQueue that begins while isProcessing is set returns at once: it
\* removes no queue item, starts no health check and no classify call
C1_SingleDrain ==
  [][ /\ Cardinality({c \in Ctx : ctx'[c].pc # "idle"}) <= 1
      /\ (lastCall' # "none" /\ isProcessing)
           => /\ lastCall' = "busy"
              /\ queue' = queue
              /\ ctx' = ctx
              /\ attempts' = attempts
              /\ isProcessing' ]_vars
\* a call of processQueue has returned at the guard while a drain awaits analyzeLog
C1_Witness ==
  /\ lastCall = "busy"
  /\ isProcessing
  /\ \E c \in Ctx : ctx[c].pc = "analyze"

\* C2: every item taken into a batch ends in exactly one bucket: its score
\* stored, or the retry path (back in the queue, or dropped with a terminal
\* failure); and no item is twice in the queue
C2_ExactlyOneBucket ==
  \A u \in Uids :
    /\ Cardinality(QueuePositions(u)) <= 1
    /\ Cardinality({b \in {"queued", "inflight", "stored", "dropped"} :
          \/ b = "queued" /\ InQueue(u)
          \/ b = "inflight" /\ InFlight(u)
          \/ b = "stored" /\ u \in storedItems
          \/ b = "dropped" /\ gaveUp[u] > 0}) = 1

\* C3: a drain cycle whose health check returns false consumes nothing: the
\* queue (items, order, retry counts) is unchanged, no classify call and no
\* upsert is made, and isProcessing is cleared
C3_UnhealthySkips ==
  [][ \A c \in Ctx :
        (ctx[c].pc = "health" /\ ctx'[c].pc # "health" /\ lastHealth' = "down")
          => /\ queue' = queue
             /\ attempts' = attempts
             /\ scores' = scores
             /\ storedItems' = storedItems
             /\ gaveUp' = gaveUp
             /\ ctx'[c].pc = "idle"
             /\ ~isProcessing' ]_vars
\* an unhealthy cycle has ended with entries still queued
C3_Witness ==
  /\ lastHealth = "down"
  /\ ~isProcessing
  /\ ActiveCtx = {}
  /\ Len(queue) > 0
  /\ cycles > 0

\* C4: one drain cycle classifies at most BATCH_SIZE items, the front-most
\* ones: with InitQueued entries queued, analyzeLog is called once for each of
\* the first BATCH_SIZE entries and for no other, the others stay queued in
\* order, and an entry re-queued during the drain is not classified again in it
C4_BatchLimit ==
  /\ \A c \in Ctx : Len(ctx[c].batch) <= BATCH_SIZE
  /\ \A u \in Uids : attempts[u] <= 1 /\ (attempts[u] = 1 => u <= BATCH_SIZE)
  /\ (attempts[1] = 1 /\ ActiveCtx = {}) =>
        /\ \A u \in 1..BATCH_SIZE : attempts[u] = 1
        /\ Len(queue) >= InitQueued - BATCH_SIZE
        /\ \A k \in 1..(InitQueued - BATCH_SIZE) :
             queue[k].uid = BATCH_SIZE + k /\ queue[k].retries = 0
\* the drain of a queue of more than BATCH_SIZE entries has ended and has
\* re-queued a failed entry behind the untouched ones
C4_Witness ==
  /\ attempts[1] = 1
  /\ ActiveCtx = {}
  /\ Len(attempts) > BATCH_SIZE
  /\ Len(queue) > Len(attempts) - BATCH_SIZE
  /\ storedItems # {}

\* C5 as stated: no item is passed to analyzeLog more than MAX_RETRIES times
C5_AtMostThreeAttempts ==
  \A u \in Uids : attempts[u] <= MAX_RETRIES
\* C5 amended: an item is classified at most MAX_RETRIES + 1 times (the first
\* attempt and MAX_RETRIES retries); once given up it is neither queued nor
\* in a batch again
C5_AtMostFourAttempts ==
  \A u \in Uids :
    /\ attempts[u] <= MAX_RETRIES + 1
    /\ gaveUp[u] > 0 => (~InQueue(u) /\ ~InFlight(u))
\* an item has been given up after its last classify attempt failed
C5_Witness ==
  \E u \in Uids : gaveUp[u] > 0 /\ attempts[u] = MAX_RETRIES + 1 /\ ~InQueue(u)

\* C6: retries are bounded: each queued item has retries in 0..MAX_RETRIES,
\* and the count is the number of failed handlings that re-queued it (one per
\* classify attempt, unless its formatting throws before the call)
C6_RetriesBounded ==
  \A k \in 1..Len(queue) :
    /\ queue[k].retries \in 0..MAX_RETRIES
    /\ formatLogThrows(queue[k]) \/ attempts[queue[k].uid] = queue[k].retries
\* an item is queued for its last retry
C6_Witness ==
  \E k \in 1..Len(queue) : queue[k].retries = MAX_RETRIES /\ attempts[queue[k].uid] = MAX_RETRIES

\* the item handled by activation c has gone to the retry path in this step
RoutedToRetry(c) ==
  LET logEntry == ctx[c].batch[ctx[c].i] IN
  \/ \E k \in 1..Len(queue') : /\ queue'[k].uid = logEntry.uid
                               /\ queue'[k].retries = logEntry.retries + 1
  \/ gaveUp'[logEntry.uid] = gaveUp[logEntry.uid] + 1
\* C7: a null classify result or a failure while storing a non-null result
\* sends the item to the retry path (re-queued, or dropped once its retries
\* are used up)
C7_FailureGoesToRetry ==
  [][ \A c \in Ctx :
        /\ (ctx[c].pc = "analyze" /\ ctx'[c] # ctx[c] /\ ctx'[c].pc # "store")
             => RoutedToRetry(c)
        /\ (ctx[c].pc = "store" /\ ctx'[c] # ctx[c]
              /\ ctx[c].batch[ctx[c].i].uid \notin storedItems')
             => RoutedToRetry(c) ]_vars

\* a call of logAuditAction has returned or thrown in this step
WriterReturns == writer' # writer /\ writer'.pc = "idle"
\* this step has added exactly one item to the back of the queue, with this log id
EnqueuedOne(id) ==
  /\ Len(queue') = Len(queue) + 1
  /\ SubSeq(queue', 1, Len(queue)) = queue
  /\ queue'[Len(queue')].id = id
  /\ queue'[Len(queue')].retries = 0

\* C8: a failure of the hand-off to the queue never affects the audit write:
\* whenever the row has been persisted, logAuditAction returns success with
\* the new id and the row stays, whether the queue function was loaded, is the
\* no-op of an unavailable processor, or throws when called
C8_EnqueueFailureHarmless ==
  [][ /\ Len(logs') >= Len(logs)
      /\ SubSeq(logs', 1, Len(logs)) = logs
      /\ logs' # logs =>
           /\ WriterReturns
           /\ writer'.ret = "success"
           /\ Len(logs') = Len(logs) + 1
           /\ writer'.logId = logs'[Len(logs')].id ]_vars
\* a row is persisted and success was returned although nothing was queued
C8_Witness ==
  /\ writer.pc = "idle"
  /\ writer.ret = "success"
  /\ Len(logs) > 0
  /\ logs[Len(logs)].id = writer.logId
  /\ anomalyQueueFn # "fn"
  /\ queue = <<>>

\* C9 as stated: the queue changes only with a persisted row, and a
\* successful call persists one row and enqueues one item with that row's id
C9_SuccessEnqueuesOne ==
  [][ /\ queue' # queue => (WriterReturns /\ writer'.ret = "success")
      /\ (WriterReturns /\ writer'.ret # "success") => (logs' = logs /\ queue' = queue)
      /\ (WriterReturns /\ writer'.ret = "success") =>
            /\ Len(logs') = Len(logs) + 1
            /\ EnqueuedOne(writer'.logId) ]_vars
\* C9 amended: the queue changes only with a persisted row; a failed call
\* leaves store and queue unchanged; a successful call persists one row and
\* enqueues one item with that row's id when the processor's queue function
\* is loaded, and none when it is not (no-op or not callable)
C9_EnqueueOnlyAfterPersist ==
  [][ /\ queue' # queue => (WriterReturns /\ writer'.ret = "success")
      /\ (WriterReturns /\ writer'.ret # "success") => (logs' = logs /\ queue' = queue)
      /\ (WriterReturns /\ writer'.ret = "success") =>
            /\ Len(logs') = Len(logs) + 1
            /\ logs'[Len(logs')].id = writer'.logId
            /\ IF anomalyQueueFn' = "fn"
               THEN EnqueuedOne(writer'.logId)
               ELSE queue' = queue ]_vars
\* a successful call has queued the item of its row
C9_Witness ==
  /\ writer.pc = "idle"
  /\ writer.ret = "success"
  /\ anomalyQueueFn = "fn"
  /\ Len(logs) > 0
  /\ Len(queue) > 0
  /\ queue[Len(queue)].id = logs[Len(logs)].id
  /\ logs[Len(logs)].id = writer.logId

\* the inputs C10 is about
C10_BadInput(args) ==
  \/ args.userId.t \in {"null", "undefined"}
  \/ args.actionType \notin VALID_ACTIONS
  \/ (args.description.t = "string" /\ Trim(args.description.v) = <<>>)
\* C10: a call with a missing userId, an actionType outside the 11 values or
\* a description that is empty after trimming fails, and leaves the store
\* and the queue unchanged; no persisted row has such a field
C10_BadInputRejected ==
  [][ /\ (writer.pc = "idle" /\ writer' # writer /\ C10_BadInput(writer'.args)) =>
            /\ writer'.pc = "idle"
            /\ writer'.ret = "threw"
            /\ logs' = logs
            /\ queue' = queue
      /\ \A k \in 1..Len(logs') :
            /\ logs'[k].user_id.t \notin {"null", "undefined"}
            /\ logs'[k].action \in VALID_ACTIONS
            /\ logs'[k].description # <<>> ]_vars
\* a call whose only fault is a description of blanks has thrown
C10_Witness ==
  /\ writer.pc = "idle"
  /\ writer.ret = "threw"
  /\ writer.args.userId = JsInt(7)
  /\ writer.args.actionType \in VALID_ACTIONS
  /\ writer.args.description = StrValue(<<" ">>)
  /\ logs = <<>>
  /\ queue = <<>>

\* the caller of the write gave no user id
ActorMissing(userId) == userId.t \in {"null", "undefined"}
NoNullActor == \A k \in 1..Len(logs) : ~ActorMissing(logs[k].user_id)

ReadLog(rows, id) == {rows[k] : k \in {j \in 1..Len(rows) : rows[j].id = id}}

\* C12: when logAuditAction returns success, a read of the store right after
\* it returns one row under the returned id, whose user_id is the userId given
\* (0 for SYSTEM_USER_ID), never null, with the actionType and the metadata
\* given and the trimmed description
C12_ReadBackAsGiven ==
  [][ (WriterReturns /\ writer'.via = "logAuditAction" /\ writer'.ret = "success") =>
        /\ Cardinality(ReadLog(logs', writer'.logId)) = 1
        /\ \A row \in ReadLog(logs', writer'.logId) :
             /\ row.user_id = writer'.args.userId
             /\ row.user_id.t = "number"
             /\ row.action = writer'.args.actionType
             /\ row.metadata = writer'.args.metadata
             /\ row.description = Trim(writer'.args.description.v)
             /\ row \notin ReadLog(logs, writer'.logId) ]_vars
\* a system-attributed call has succeeded and its row reads back with user_id 0
C12_Witness ==
  /\ writer.pc = "idle"
  /\ writer.via = "logAuditAction"
  /\ writer.ret = "success"
  /\ writer.args.userId = JsInt(SYSTEM_USER_ID)
  /\ writer.args.metadata = MetaReasonNumber
  /\ \E row \in ReadLog(logs, writer.logId) : row.user_id = JsInt(SYSTEM_USER_ID)

RowsOf(rows, logId) == {r \in rows : r.log_id = logId}

C14_ListingIsLeftJoin ==
  LET listing == listWithResults(logs, scores) IN
  /\ Cardinality(listing) = Len(logs)
  /\ \A k \in 1..Len(logs) :
       LET mine == {e \in listing : e.id = logs[k].id} IN
       /\ Cardinality(mine) = 1
       /\ \A e \in mine :
            /\ e.userId = logs[k].user_id
            /\ e.action = logs[k].action
            /\ e.description = logs[k].description
            /\ e.metadata = logs[k].metadata
            /\ IF \E r \in scores : r.log_id = logs[k].id
               THEN /\ ~e.anomalyScore.isNull
                    /\ \E r \in scores : /\ r.log_id = logs[k].id
                                         /\ e.anomalyScore.v = r.anomaly_score
                                         /\ e.isAnomaly = r.is_anomaly
                                         /\ e.modelName = Value(r.model_name)
               ELSE /\ e.anomalyScore = NullValue
                    /\ e.isAnomaly = FALSE
                    /\ e.modelName = NullValue
\* a log whose classification was given up is listed without a score
C14_Witness ==
  /\ Len(logs) > 0
  /\ scores = {}
  /\ \E u \in Uids : gaveUp[u] > 0
  /\ \E e \in listWithResults(logs, scores) : e.id = logs[1].id /\ e.anomalyScore.isNull

\* a step of the queue or the processor: a drain starts, resumes or ends,
\* an item is retried, dropped or scored, the timer is created or cleared
ProcessorStep ==
  \/ ctx' # ctx
  \/ isProcessing' # isProcessing
  \/ processorInterval' # processorInterval
  \/ scores' # scores
  \/ \E u \in Uids : gaveUp'[u] # gaveUp[u]
  \/ lastCall' # "none"

\* C15: no operation of the queue or the processor modifies or deletes a row
\* of table logs: every row written is the same in every later state, also
\* once its classification is given up; rows are only added, by the return of
\* the insert
C15_LogsUntouched ==
  [][ /\ Len(logs') >= Len(logs)
      /\ SubSeq(logs', 1, Len(logs)) = logs
      /\ ProcessorStep => logs' = logs
      /\ queue' # queue => SubSeq(logs', 1, Len(logs)) = logs ]_vars
\* the classification of a persisted log has been given up and the row is
\* still there as it was written
C15_Witness ==
  /\ \E u \in Uids : gaveUp[u] > 0 /\ attempts[u] = MAX_RETRIES + 1
  /\ queue = <<>>
  /\ ActiveCtx = {}
  /\ logs = <<insertedRow(1, AliceLogin)>>

\* the score of item u is stored under its log id (here the id is the uid)
\* and the item has left the queue
Scored(u) == u \in storedItems /\ RowsOf(scores, u) # {} /\ ~InQueue(u)
\* item u waits in the queue or in the rest of a batch, and its text can be formatted
Pending(u) ==
  \/ \E k \in 1..Len(queue) : queue[k].uid = u /\ ~formatLogThrows(queue[k])
  \/ \E c \in Ctx : /\ ctx[c].pc \in {"analyze", "store"}
                    /\ \E k \in ctx[c].i..Len(ctx[c].batch) :
                         ctx[c].batch[k].uid = u /\ ~formatLogThrows(ctx[c].batch[k])

\* C16 as stated: once health check, classify and upsert succeed, every item
\* that was ever enqueued eventually has its score stored and is off the queue
C16_AllEnqueuedScored ==
  \A u \in 1..MaxLogs : (u < nextUid) ~> Scored(u)
\* C16 amended: once health check, classify and upsert succeed, every item
\* that is then still queued or in a batch, or is enqueued later, and whose
\* text can be formatted, eventually has its score stored under its log id
\* and is off the queue; an item given up before, and one whose formatting
\* throws, has no score stored
C16_PendingScored ==
  /\ \A u \in 1..MaxLogs : Pending(u) ~> Scored(u)
  /\ [](\A u \in Uids : gaveUp[u] > 0 => u \notin storedItems)
  /\ [](\A k \in 1..Len(queue) : formatLogThrows(queue[k]) => queue[k].uid \notin storedItems)
\* an item whose earlier classify attempts had failed has its score stored
C16_Witness ==
  \E u \in Uids : attempts[u] = MAX_RETRIES + 1 /\ Scored(u) /\ gaveUp[u] = 0

\* nothing is queued and no drain is in progress
QueueDrained == queue = <<>> /\ ActiveCtx = {}
\* what holds of an item while every classify call times out: it is given up
\* at most once, exactly when its last attempt has failed; from then on it is
\* neither queued nor in a batch; no score exists and the listing shows none
DroppedForGood ==
  /\ scores = {}
  /\ \A e \in listWithResults(logs, scores) : e.anomalyScore = NullValue
  /\ \A u \in Uids :
       /\ gaveUp[u] <= 1
       /\ attempts[u] <= MAX_RETRIES + 1
       /\ gaveUp[u] = 1 => (~InQueue(u) /\ ~InFlight(u))
       /\ (attempts[u] = MAX_RETRIES + 1 /\ ~InFlight(u)) => (gaveUp[u] = 1 /\ ~InQueue(u))

\* C17 as stated: when every classify call times out, each item is dropped
\* for good after its retries, with one terminal failure and no score, and
\* with no new arrivals the queue becomes empty after finitely many cycles
C17_TimeoutEmptiesQueue ==
  /\ []DroppedForGood
  /\ <>[](QueueDrained /\ \A u \in Uids : gaveUp[u] = 1)
\* C17 amended: when every classify call times out, each item is dropped for
\* good after its retries, with one terminal failure and no score, and is
\* never classified again; with no new arrivals the queue becomes empty
\* unless from some point on no health check succeeds, in which case the
\* cycles are skipped and the items stay queued
C17_TimeoutDropsWhenHealthy ==
  /\ []DroppedForGood
  /\ [][\A u \in Uids : gaveUp[u] = 1 => attempts'[u] = attempts[u]]_vars
  /\ \/ <>[](QueueDrained /\ \A u \in Uids : gaveUp[u] = 1)
     \/ <>[](lastHealth # "up")
\* every log's item has been given up after its last classify call timed
\* out, the queue is empty and the listing shows no score
C17_Witness ==
  /\ QueueDrained
  /\ Uids # {}
  /\ \A u \in Uids : gaveUp[u] = 1
  /\ \E u \in Uids : attempts[u] = MAX_RETRIES + 1
  /\ \A e \in listWithResults(logs, scores) : e.anomalyScore = NullValue

\* C18: an audit-write failure is fatal to the request: when logAuditAction
\* reports a failure (it throws, or returns success: false) for the audit
\* record of POST /api/products, the handler does not answer with success
C18_AuditFailureFatal ==
  (writer.via = "postProduct" /\ writer.pc = "idle" /\ writer.ret \in {"failure", "threw"})
    => writer.http # "201"

\* the entry activation c has handed to analyzeLog and waits for
ClassifyCallEntry(c) == ctx[c].batch[ctx[c].i]
\* the entry comes from the row logAuditAction wrote for the alice login
IsAliceLogin(logEntry) ==
  /\ logEntry.action = "LOGIN"
  /\ logEntry.description = AliceDescription
  /\ logEntry.metadata = MetaSuccess
  /\ \E k \in 1..Len(logs) : logs[k].id = logEntry.id /\ logs[k] = insertedRow(logEntry.id, AliceLogin)

\* C19 as stated: the classify call made for the successful login of alice
\* carries a formatted text that contains "alice"
C19_TextContainsAlice ==
  \A c \in Ctx :
    (ctx[c].pc = "analyze" /\ IsAliceLogin(ClassifyCallEntry(c)))
      => Contains(formatLogForAnalysis(ClassifyCallEntry(c)), "alice")
\* C19 amended: the classify call made for the successful login of alice
\* carries the id of its row and the fixed text 'user logged in
\* successfully'; the description, and with it "alice", is not in the text.
\* The description is the text for the order actions
C19_LoginTextIsTemplate ==
  \A c \in Ctx :
    ctx[c].pc = "analyze" =>
      /\ \E k \in 1..Len(logs) : logs[k].id = ClassifyCallEntry(c).id
      /\ IsAliceLogin(ClassifyCallEntry(c)) =>
           /\ formatLogForAnalysis(ClassifyCallEntry(c)) = <<"user logged in successfully">>
           /\ ~Contains(formatLogForAnalysis(ClassifyCallEntry(c)), "alice")
      /\ ClassifyCallEntry(c).action = "CREATE_ORDER" =>
           formatLogForAnalysis(ClassifyCallEntry(c)) = ClassifyCallEntry(c).description
\* analyzeLog has been called for the row of the alice login
C19_Witness ==
  \E c \in Ctx : /\ ctx[c].pc = "analyze"
                 /\ IsAliceLogin(ClassifyCallEntry(c))
                 /\ attempts[ClassifyCallEntry(c).uid] = 1

analyzeTimestamp(logEntry) ==
  IF "created_at" \in DOMAIN logEntry THEN Value(logEntry.created_at)
  ELSE IF "timestamp" \in DOMAIN logEntry THEN Value(logEntry.timestamp)
  ELSE NullValue

\* C21: every classify call of a drain is made with the id of the item's
\* audit record, its formatted text and the record's creation timestamp:
\* the timestamp handed to analyzeLog is not null
C21_ClassifyGetsTimestamp ==
  \A c \in Ctx :
    ctx[c].pc = "analyze" =>
      /\ \E k \in 1..Len(logs) : logs[k].id = ClassifyCallEntry(c).id
      /\ analyzeTimestamp(ClassifyCallEntry(c)) # NullValue

\* ======================================================================
\* Order of classification and of the retry path
\* ======================================================================

\* entry e as the retry path puts it back: one more retry and a nextRetryAt
Retried(e) == [e EXCEPT !.retries = @ + 1, !.nextRetryAt = now + RETRY_DELAY_MS]
\* the items a step has added behind the first n items of the queue
AddedBehind(n) == SubSeq(queue', n + 1, Len(queue'))
\* the items added behind the first n queued items are items of batch at
\* positions from..upto, in batch order, each with one more retry
RetriedInOrder(n, batch, from, upto) ==
  LET added == AddedBehind(n) IN
  /\ \A k \in 1..Len(added) :
       \E j \in from..upto : added[k] = Retried(batch[j])
  /\ \A k1, k2 \in 1..Len(added) :
       k1 < k2 => \E j1, j2 \in from..upto :
                    /\ j1 < j2
                    /\ added[k1].uid = batch[j1].uid
                    /\ added[k2].uid = batch[j2].uid

\* C22: within one drain the items are classified one at a time in the
\* order they stood in the queue: the batch is the front of the queue in
\* queue order, it stays as taken, the index of the item handed to
\* analyzeLog only grows and one call is in flight at a time; an item that
\* fails is appended behind every item queued at the moment of the failure,
\* which all keep their positions ahead of it
C22_FifoAndRetryAtBack ==
  [][ \A c \in Ctx :
        /\ (ctx[c].pc = "health" /\ ctx'[c].pc = "analyze") =>
             LET n == Len(ctx'[c].batch) IN
             /\ n <= Len(queue)
             /\ ctx'[c].batch = SubSeq(queue, 1, n)
             /\ Len(queue') >= Len(queue) - n
             /\ SubSeq(queue', 1, Len(queue) - n) = SubSeq(queue, n + 1, Len(queue))
             /\ RetriedInOrder(Len(queue) - n, ctx'[c].batch, 1, ctx'[c].i - 1)
        /\ ctx[c].pc \in {"analyze", "store"} =>
             /\ Len(queue') >= Len(queue)
             /\ SubSeq(queue', 1, Len(queue)) = queue
        /\ (ctx[c].pc \in {"analyze", "store"} /\ ctx'[c] # ctx[c]) =>
             LET upto == IF ctx'[c].pc = "idle" THEN Len(ctx[c].batch) ELSE ctx'[c].i - 1 IN
             /\ ctx'[c].pc # "idle" => /\ ctx'[c].batch = ctx[c].batch
                                       /\ ctx'[c].i >= ctx[c].i
             /\ ctx'[c].pc = "analyze" => ctx'[c].i > ctx[c].i
             /\ RetriedInOrder(Len(queue), ctx[c].batch, ctx[c].i, upto)
             /\ (ctx[c].pc = "analyze" /\ ctx'[c].pc # "store"
                    /\ shouldRetry(ClassifyCallEntry(c))) =>
                  /\ Len(queue') > Len(queue)
                  /\ queue'[Len(queue) + 1] =
                       Retried(ClassifyCallEntry(c))
        /\ \A d \in Ctx : (ctx'[c].pc \in {"analyze", "store"}
                             /\ ctx'[d].pc \in {"analyze", "store"}) => c = d ]_vars
\* the first item of a batch has failed and waits behind the items that
\* were queued and never taken, while the drain classifies a later item
C22_Witness ==
  \E c \in Ctx :
    /\ ctx[c].pc = "analyze"
    /\ ctx[c].i >= 2
    /\ Len(queue) >= 2
    /\ queue[Len(queue)].uid = ctx[c].batch[1].uid
    /\ queue[Len(queue)].retries = 1
    /\ \A k \in 1..(Len(queue) - 1) : attempts[queue[k].uid] = 0

\* ======================================================================
\* The stop-during-drain scenario: the server has started the processor,
\* StopQueued logs are queued (the format of every second one throws),
\* nothing but the timer and startProcessor calls processQueue, and
\* stopProcessor is called while a drain is in flight
\* ======================================================================
StopItem(k) ==
  [uid |-> k, id |-> k, action |-> "LOGIN", description |-> Description,
   metadata |-> IF k % 2 = 0 THEN MetaReasonNumber ELSE MetaSuccess, retries |-> 0, nextRetryAt |-> 0]

InitStop ==
  /\ queue = [k \in 1..StopQueued |-> StopItem(k)]
  /\ isProcessing = FALSE
  /\ processorInterval = TRUE
  /\ timers = 1
  /\ ctx = [c \in Ctx |-> IdleCtx]
  /\ scores = {}
  /\ lastHealth = "none"
  /\ lastCall = "none"
  /\ now = 0
  /\ client = ClientIdle
  /\ cycles = 0
  /\ nextUid = StopQueued + 1
  /\ attempts = [k \in 1..StopQueued |-> 0]
  /\ storedItems = {}
  /\ gaveUp = [k \in 1..StopQueued |-> 0]
  /\ InitWriter

\* stopProcessor() called between two steps of a drain
StopDuringDrain == isProcessing /\ StopProcessor

NextStop ==
  \/ TimerTick
  \/ StopDuringDrain
  \/ StartProcessor
  \/ \E c \in Ctx, resp \in HealthResponses : HealthReturn(c, resp)
  \/ \E c \in Ctx, resp \in AnalyzeResponses, s \in BatchScores : AnalyzeReturn(c, resp, s)
  \/ \E c \in Ctx, o \in UpsertOutcomes : StoreReturn(c, o)

SpecStop == InitStop /\ [][NextStop]_vars

\* the handling of entry e has ended in this step: its score is stored, it
\* is back in the queue with one more retry, or it has left the pipeline
\* (given up after its retries, or let go after the upsert failed)
Settled(e) ==
  \/ e.uid \in storedItems'
  \/ \E k \in 1..Len(queue') : queue'[k] = Retried(e)
  \/ /\ \A k \in 1..Len(queue') : queue'[k].uid # e.uid
     /\ \A c \in Ctx : ctx'[c].pc # "idle" =>
          \A j \in ctx'[c].i..Len(ctx'[c].batch) : ctx'[c].batch[j].uid # e.uid
\* a step of drain c made while no timer exists goes on as the code says:
\* the items whose handling ends in the step are settled, the next item is
\* handed to analyzeLog, and the drain's end clears isProcessing
DrainGoesOn(c) ==
  LET batch == IF ctx[c].pc = "health" THEN ctx'[c].batch ELSE ctx[c].batch
      from  == IF ctx[c].pc = "health" THEN 1 ELSE ctx[c].i
      upto  == IF ctx'[c].pc = "idle" THEN Len(batch) ELSE ctx'[c].i - 1
  IN  /\ \A j \in from..upto : Settled(batch[j])
      /\ ctx'[c].pc = "analyze" =>
           attempts'[batch[ctx'[c].i].uid] = attempts[batch[ctx'[c].i].uid] + 1
      /\ ctx'[c].pc = "store" => ctx'[c].i = ctx[c].i /\ ctx[c].pc = "analyze"
      /\ (ctx[c].pc = "health" /\ lastHealth' = "up") =>
           /\ ctx'[c].pc = "idle" => \A k \in 1..Len(queue) : formatLogThrows(queue[k])
           /\ ctx'[c].pc # "idle" => batch = SubSeq(queue, 1, Len(batch))
      /\ ctx'[c].pc = "idle" <=> ~isProcessing'

\* C23: stopProcessor cancels only the timer: the call leaves the queue,
\* the drain in flight, isProcessing and the stored scores as they are; the
\* drain in flight goes on handling every item of its batch and clears
\* isProcessing at its end; and while no timer exists no drain begins and
\* processQueue is called by nothing but startProcessor, which creates one
C23_StopCancelsOnlyTimer ==
  [][ /\ (processorInterval /\ ~processorInterval') =>
           /\ queue' = queue
           /\ ctx' = ctx
           /\ isProcessing' = isProcessing
           /\ scores' = scores
           /\ storedItems' = storedItems /\ gaveUp' = gaveUp
      /\ (~processorInterval /\ ~processorInterval') =>
           /\ lastCall' = "none"
           /\ \A c \in Ctx : ctx[c].pc = "idle" => ctx'[c].pc = "idle"
           /\ ~isProcessing => ~isProcessing'
      /\ (~processorInterval /\ lastCall' # "none") => processorInterval'
      /\ \A c \in Ctx :
           (~processorInterval /\ ctx[c].pc # "idle" /\ ctx'[c] # ctx[c])
             => DrainGoesOn(c) ]_vars
\* the timer was cancelled during the only drain so far; the drain has
\* ended and cleared isProcessing, its first item is stored, its second is
\* back in the queue with one retry, and nothing has been taken since
C23_Witness ==
  /\ ~processorInterval
  /\ ~isProcessing
  /\ \A c \in Ctx : ctx[c].pc = "idle"
  /\ cycles = 1
  /\ 1 \in storedItems
  /\ \E k \in 1..Len(queue) : queue[k] = Retried(StopItem(2))
  /\ \A u \in Uids : u \in storedItems \/ InQueue(u)

\* ======================================================================
\* The retry-delay scenario: the server has started the processor,
\* StopQueued logs are queued, and the timer fires every
\* PROCESS_INTERVAL_MS. The clock stands still between two ticks, so a
\* nextRetryAt computed here is never later than the one the code computes
\* ======================================================================

\* the setInterval callback, PROCESS_INTERVAL_MS after the previous one
IntervalTick ==
  /\ timers > 0
  /\ now < MaxTicks * PROCESS_INTERVAL_MS
  /\ now' = now + PROCESS_INTERVAL_MS
  /\ ProcessQueue
  /\ UNCHANGED <<processorInterval, timers>>
  /\ UNCHANGED <<writerVars, client>>

NextRetry ==
  \/ IntervalTick
  \/ \E c \in Ctx, resp \in HealthResponses : HealthReturn(c, resp)
  \/ \E c \in Ctx, resp \in AnalyzeResponses, s \in BatchScores : AnalyzeReturn(c, resp, s)
  \/ \E c \in Ctx, o \in UpsertOutcomes : StoreReturn(c, o)

SpecRetry == InitStop /\ [][NextRetry]_vars

HealthSettles == \E c \in Ctx, resp \in HealthResponses : HealthReturn(c, resp)
AnalyzeSettles ==
  \E c \in Ctx, resp \in AnalyzeResponses, s \in BatchScores : AnalyzeReturn(c, resp, s)
StoreSettles == \E c \in Ctx, o \in UpsertOutcomes : StoreReturn(c, o)

NextSettles ==
  \/ TimerTick
  \/ HealthSettles
  \/ AnalyzeSettles
  \/ StoreSettles

SpecSettles ==
  /\ InitStop
  /\ [][NextSettles]_vars
  /\ WF_vars(TimerTick)
  /\ WF_vars(HealthSettles)
  /\ WF_vars(AnalyzeSettles)
  /\ WF_vars(StoreSettles)

SpecClient == Init /\ [][NextClient]_vars

\* the reply is one of the failure modes: timeout, connection refused,
\* non-success status, or a body that is not JSON
FailureMode(r) == r.net \in {"timeout", "refused"} \/ ~r.ok \/ r.json = "malformed"

\* C26: the three client operations never let a failure reach the caller:
\* no call ends in an exception; on a timeout, a refused connection, a
\* non-success status or a body that is not JSON isServiceAvailable returns
\* false, analyzeLog returns null and analyzeBatch returns an empty list;
\* and isServiceAvailable returns true only for a success response whose
\* model_loaded is true
C26_ClientNeverThrows ==
  /\ client.out # "throw"
  /\ (client.op = "isServiceAvailable" /\ FailureMode(client.reply)) => client.out = "false"
  /\ (client.op = "analyzeLog" /\ FailureMode(client.reply)) => client.out = "null"
  /\ (client.op = "analyzeBatch" /\ FailureMode(client.reply)) => client.out = "empty"
  /\ (client.op = "isServiceAvailable" /\ client.out = "true") =>
       /\ client.reply.net = "response"
       /\ client.reply.ok
       /\ client.reply.json = "object"
       /\ client.reply.model_loaded
\* analyzeBatch was answered with a 2xx response whose body is not JSON
\* and has returned an empty list
C26_Witness ==
  /\ client.op = "analyzeBatch"
  /\ client.logsIsArray
  /\ client.reply.net = "response"
  /\ client.reply.ok
  /\ client.reply.json = "malformed"
  /\ client.out = "empty"

\* the userId is not an integer number: a string, NaN, a fraction, or missing
NotAnInteger(userId) == ~(userId.t = "number" /\ userId.kind = "integer")

\* C27: logAuditAction accepts a userId only if it is present and an
\* integer: a call with a string, NaN or a non-integer number such as 1.5
\* throws the userId error before anything is inserted or queued
C27_NonIntegerActorThrows ==
  [][ (writer.pc = "idle" /\ writer' # writer /\ NotAnInteger(writer'.args.userId)) =>
        /\ writer'.pc = "idle"
        /\ writer'.ret = "threw"
        /\ logs' = logs
        /\ queue' = queue ]_vars

\* after the step that ended the handling of item i of drain c, every later
\* item of the batch is still handled in the same drain: it waits in the
\* batch for its analyzeLog call or is the item just handed to analyzeLog,
\* unless its own formatting threw
LaterItemsGoOn(c) ==
  \A j \in (ctx[c].i + 1)..Len(ctx[c].batch) :
    IF ctx'[c].pc # "idle" /\ j >= ctx'[c].i
    THEN ctx'[c].batch[j] = ctx[c].batch[j]
    ELSE formatLogThrows(ctx[c].batch[j])

\* C28: a failure while handling one item is confined to that item: when
\* analyzeLog fails or the upsert fails or throws for item i, item i is
\* routed to the retry path, and every later item of the batch is still
\* classified in the same drain
C28_FailureConfined ==
  [][ \A c \in Ctx :
        /\ (ctx[c].pc = "analyze" /\ ctx'[c] # ctx[c] /\ ctx'[c].pc # "store")
             => (RoutedToRetry(c) /\ LaterItemsGoOn(c))
        /\ (ctx[c].pc = "store" /\ ctx'[c] # ctx[c]
              /\ ctx[c].batch[ctx[c].i].uid \notin storedItems')
             => (RoutedToRetry(c) /\ LaterItemsGoOn(c)) ]_vars
\* C28 without the upsert: when analyzeLog fails for item i, item i is
\* routed to the retry path; and after a failed analyzeLog call or a failed
\* upsert every later item of the batch is still classified in the same drain
C28_LaterItemsStillClassified ==
  [][ \A c \in Ctx :
        /\ (ctx[c].pc = "analyze" /\ ctx'[c] # ctx[c] /\ ctx'[c].pc # "store")
             => (RoutedToRetry(c) /\ LaterItemsGoOn(c))
        /\ (ctx[c].pc = "store" /\ ctx'[c] # ctx[c]) => LaterItemsGoOn(c) ]_vars

\* ======================================================================
\* The echoed-id scenario: the repeated-log scenario with a service whose
\* response may carry any of the log ids in its log_id field
\* ======================================================================

\* processQueue() resumed after 'await analyzeLog(...)' with a response
\* whose log_id is echo
AnalyzeReturnEcho(c, resp, score, echo) ==
  /\ AnalyzeResumeEcho(c, resp, score, echo)
  /\ UNCHANGED <<writerVars, now, client>>

NextEcho ==
  \/ ProcessQueueCall
  \/ \E c \in Ctx, resp \in HealthResponses : HealthReturn(c, resp)
  \/ \E c \in Ctx, resp \in AnalyzeResponses, s \in BatchScores, echo \in UpsertIds :
       AnalyzeReturnEcho(c, resp, s, echo)
  \/ \E c \in Ctx, o \in UpsertOutcomes : StoreReturn(c, o)

SpecEcho == InitUpsert /\ [][NextEcho]_vars

\* C29: every stored score is keyed by the id of the queue item whose
\* analyzeLog call produced it, whatever log_id the response carried: the
\* upsert made for an item writes the row of that item's id and no other
C29_StoredUnderItemId ==
  [][ \A c \in Ctx :
        (ctx[c].pc = "store" /\ ctx'[c] # ctx[c] /\ ClassifyCallEntry(c).uid \in storedItems')
          => scores' = upsertScore(scores, ClassifyCallEntry(c).id, ctx[c].score) ]_vars

\* ======================================================================
\* The start/stop scenario: between two timer ticks, callers start and stop
\* the processor and queue logs while the awaited calls of a drain return
\* ======================================================================
NextStartStop ==
  \/ \E e \in EntryInputs : QueueLogForAnalysis(e)
  \/ StartProcessor
  \/ StopProcessor
  \/ \E c \in Ctx, resp \in HealthResponses : HealthReturn(c, resp)
  \/ \E c \in Ctx, resp \in AnalyzeResponses, s \in BatchScores : AnalyzeReturn(c, resp, s)
  \/ \E c \in Ctx, o \in UpsertOutcomes : StoreReturn(c, o)

SpecStartStop == Init /\ [][NextStartStop]_vars

\* C30: after any sequence of startProcessor and stopProcessor calls at
\* most one interval timer is active, and it is the one processorInterval
\* holds; startProcessor while running makes no timer and does not call
\* processQueue; stopProcessor when not running changes nothing; and
\* startProcessor when not running makes one timer and calls processQueue
\* at once
C30_AtMostOneTimer ==
  [][ /\ timers' <= 1
      /\ timers' = IF processorInterval' THEN 1 ELSE 0
      /\ processorInterval =>
           /\ timers' <= timers
           /\ lastCall' = "none"
           /\ ~isProcessing => ~isProcessing'
      /\ (~processorInterval /\ ~processorInterval') =>
           /\ timers' = 0
           /\ lastCall' = "none"
           /\ ~isProcessing => ~isProcessing'
      /\ (~processorInterval /\ processorInterval') =>
           /\ timers' = 1
           /\ lastCall' \in {"started", "busy", "empty"}
           /\ (~isProcessing /\ Len(queue) > 0) => (lastCall' = "started" /\ isProcessing') ]_vars
\* the processor was started, stopped after its first drain had taken a
\* batch, and started again: one timer is active and the second start has
\* begun a drain at once
C30_Witness ==
  /\ processorInterval
  /\ timers = 1
  /\ lastCall = "started"
  /\ cycles = 1

====
